---------------------------- MODULE Spec2Model ----------------------------
(***************************************************************************)
(* A model of the KeePass v1.x reader of rust-keepass: header validation,  *)
(* decryption checks, the TLV body parser and the group-tree builder of    *)
(* V1Kpdb.                                                                 *)
(*                                                                         *)
(* Results of the Rust functions are records [err, ...]: err is "Ok", one  *)
(* of the V1KpdbError names, or "Panic" when the code aborts the task (an  *)
(* out-of-bounds index or slice, an unwrap of an Err).                     *)
(*                                                                         *)
(* Vec<u8> and &[u8] are sequences of 0..255; Rust indices are 0-based, so *)
(* the Rust element s[k] is the TLA+ element s[k + 1].                     *)
(***************************************************************************)
EXTENDS Integers, Sequences, FiniteSets, TLC

VARIABLES
    file,         \* the file at db.path as the last call read it
    password,     \* V1Kpdb.password, a SecureString
    keyfile,      \* V1Kpdb.keyfile ("" when there is none)
    header,       \* V1Kpdb.header
    groups,       \* V1Kpdb.groups
    entries,      \* V1Kpdb.entries
    root_group,   \* V1Kpdb.root_group
    plain,        \* decrypted_database of the last call
    levels,       \* the level vector handed to create_group_tree
    pos,          \* the position parse_groups remembered
    gen,          \* number of parse runs so far (names the objects they allocate)
    res,          \* result of the last call ("none" before the first)
    input,        \* the records the plaintext under test was assembled from
    finalkey,     \* finalkey of the last decrypt_database
    released,     \* the key buffers the last call released, as they were released
    date          \* the Tm the last get_date returned

vars == <<file, password, keyfile, header, groups, entries, root_group, plain, levels, pos,
          gen, res, input, finalkey, released, date>>

(***************************************************************************)
(* Bounds of the model.                                                    *)
(***************************************************************************)
MaxGroups == 3
MaxEntries == 1
MaxGroupRecs == 2
MaxEntryRecs == 1
MaxTrunc == 7
MaxLoads == 2

(***************************************************************************)
(* Helpers.  A u32 that is compared with a 32-bit constant (signatures,    *)
(* flags, version) is kept as its four bytes, most significant first;      *)
(* U32Val gives the number of one that is used as a count.                 *)
(***************************************************************************)
U32Val(w) == w[1] * 16777216 + w[2] * 65536 + w[3] * 256 + w[4]

BitSet(v, k) == (v \div k) % 2 = 1

Last(s) == s[Len(s)]

RECURSIVE Flatten(_)
Flatten(ss) == IF ss = <<>> THEN <<>> ELSE Head(ss) \o Flatten(Tail(ss))

(***************************************************************************)
(* slice(start, end) of a Vec<u8>: the code's slices panic unless          *)
(* start <= end <= len.                                                    *)
(***************************************************************************)
SliceOk(v, start, end) == start <= end /\ end <= Len(v)

Slice(v, start, end) == SubSeq(v, start + 1, end)

(***************************************************************************)
(* slice_to_u16, slice_to_u32: little-endian decoding of the first 2 / 4   *)
(* bytes; a shorter slice is ConvertErr.                                   *)
(***************************************************************************)
slice_to_u16(slice) ==
    IF Len(slice) < 2
    THEN [err |-> "ConvertErr", val |-> 0]
    ELSE [err |-> "Ok", val |-> slice[2] * 256 + slice[1]]

slice_to_u32(slice) ==
    IF Len(slice) < 4
    THEN [err |-> "ConvertErr", val |-> 0]
    ELSE [err |-> "Ok",
          val |-> slice[4] * 16777216 + slice[3] * 65536 + slice[2] * 256 + slice[1]]

(***************************************************************************)
(* str::from_utf8 of the standard library: well-formed UTF-8 (RFC 3629).   *)
(***************************************************************************)
IsCont(b) == b >= 128 /\ b <= 191

RECURSIVE Utf8Valid(_)
Utf8Valid(s) ==
    IF s = <<>> THEN TRUE
    ELSE LET b == s[1]
             n == Len(s)
         IN  IF b < 128 THEN Utf8Valid(Tail(s))
             ELSE IF b >= 194 /\ b <= 223
             THEN n >= 2 /\ IsCont(s[2]) /\ Utf8Valid(SubSeq(s, 3, n))
             ELSE IF b >= 224 /\ b <= 239
             THEN /\ n >= 3
                  /\ IsCont(s[2]) /\ IsCont(s[3])
                  /\ (b = 224 => s[2] >= 160)
                  /\ (b = 237 => s[2] <= 159)
                  /\ Utf8Valid(SubSeq(s, 4, n))
             ELSE IF b >= 240 /\ b <= 244
             THEN /\ n >= 4
                  /\ IsCont(s[2]) /\ IsCont(s[3]) /\ IsCont(s[4])
                  /\ (b = 240 => s[2] >= 144)
                  /\ (b = 244 => s[2] <= 143)
                  /\ Utf8Valid(SubSeq(s, 5, n))
             ELSE FALSE

\* str::from_utf8(db_slice).unwrap_or("").to_string()
from_utf8_or_empty(slice) == IF Utf8Valid(slice) THEN slice ELSE <<>>

(***************************************************************************)
(* get_date: unpacks a 5-byte timestamp; indexing date_bytes[0..4] panics  *)
(* on a shorter slice.  The shifted parts occupy disjoint bits, so each    *)
(* `|` is a sum.                                                           *)
(***************************************************************************)
Tm0 == [year |-> 0, month |-> 0, day |-> 0, hour |-> 0, minute |-> 0, second |-> 0]

\* get_date with the day taken without its 5-bit mask
get_date_day_unmasked(date_bytes) ==
    IF Len(date_bytes) < 5
    THEN [err |-> "Panic", val |-> Tm0]
    ELSE LET dw1 == date_bytes[1]
             dw2 == date_bytes[2]
             dw3 == date_bytes[3]
             dw4 == date_bytes[4]
             dw5 == date_bytes[5]
         IN  [err |-> "Ok",
              val |-> [year   |-> dw1 * 64 + dw2 \div 4,
                       month  |-> (dw2 % 4) * 4 + dw3 \div 64,
                       day    |-> dw3 \div 2,
                       hour   |-> (dw3 % 2) * 16 + dw4 \div 16,
                       minute |-> (dw4 % 16) * 4 + dw5 \div 64,
                       second |-> dw5 % 64]]

get_date(date_bytes) ==
    IF Len(date_bytes) < 5
    THEN [err |-> "Panic", val |-> Tm0]
    ELSE LET dw1 == date_bytes[1]
             dw2 == date_bytes[2]
             dw3 == date_bytes[3]
             dw4 == date_bytes[4]
             dw5 == date_bytes[5]
         IN  [err |-> "Ok",
              val |-> [year   |-> dw1 * 64 + dw2 \div 4,
                       month  |-> (dw2 % 4) * 4 + dw3 \div 64,
                       day    |-> (dw3 \div 2) % 32,
                       hour   |-> (dw3 % 2) * 16 + dw4 \div 16,
                       minute |-> (dw4 % 16) * 4 + dw5 \div 64,
                       second |-> dw5 % 64]]

(***************************************************************************)
(* V1Group::new() and V1Entry::new(): the empty objects the parser fills.  *)
(* oid names the Rc allocation; parent, group, children and entries hold   *)
(* references: NoneRef for Option::None, RootRef for root_group.           *)
(***************************************************************************)
NoneRef == <<"none", 0, 0>>

RootRef == <<"root", 0, 0>>

GroupRef(g, i) == <<"group", g, i>>

EntryRef(g, i) == <<"entry", g, i>>

V1GroupNew(oid) ==
    [oid |-> oid, id |-> 0, title |-> <<>>,
     creation |-> Tm0, last_mod |-> Tm0, last_access |-> Tm0, expire |-> Tm0,
     image |-> 0, level |-> 0, flags |-> 0,
     parent |-> NoneRef, children |-> <<>>, entries |-> <<>>]

V1EntryNew(oid) ==
    [oid |-> oid, uuid |-> <<>>, group_id |-> 0, image |-> 0,
     title |-> <<>>, url |-> <<>>, username |-> <<>>, password |-> <<>>,
     comment |-> <<>>,
     creation |-> Tm0, last_mod |-> Tm0, last_access |-> Tm0, expire |-> Tm0,
     binary_desc |-> <<>>, binary |-> <<>>, group |-> NoneRef]

(***************************************************************************)
(* The slice a field reader takes at pos.  For a string field the end is   *)
(* pos + (field_size - 1): with field_size = 0 the u32 subtraction wraps   *)
(* to 0xFFFFFFFF and the end lies past every Vec, so the slice panics.     *)
(***************************************************************************)
FieldSliceOk(db, p, field_size, isString) ==
    IF isString
    THEN field_size >= 1 /\ SliceOk(db, p, p + field_size - 1)
    ELSE SliceOk(db, p, p + field_size)

FieldSlice(db, p, field_size, isString) ==
    IF isString
    THEN Slice(db, p, p + field_size - 1)
    ELSE Slice(db, p, p + field_size)

\* try!(slice_to_u32(db_slice)) assigned to one field: ConvertErr leaves the object as it is
SetNum(obj, f, conv) ==
    IF conv.err = "Ok"
    THEN [err |-> "Ok", val |-> [obj EXCEPT ![f] = conv.val]]
    ELSE [err |-> conv.err, val |-> obj]

\* get_date(db_slice) assigned to one field
SetDate(obj, f, slice) ==
    LET d == get_date(slice)
    IN  IF d.err = "Ok"
        THEN [err |-> "Ok", val |-> [obj EXCEPT ![f] = d.val]]
        ELSE [err |-> "Panic", val |-> obj]

(***************************************************************************)
(* read_group_field: returns the group with the field stored, ConvertErr   *)
(* (group unchanged) or Panic.                                             *)
(***************************************************************************)
read_group_field(group, field_type, field_size, db, p) ==
    IF ~FieldSliceOk(db, p, field_size, field_type = 2)
    THEN [err |-> "Panic", val |-> group]
    ELSE LET db_slice == FieldSlice(db, p, field_size, field_type = 2)
         IN  CASE field_type = 1 -> SetNum(group, "id", slice_to_u32(db_slice))
               [] field_type = 2 ->
                    [err |-> "Ok",
                     val |-> [group EXCEPT !.title = from_utf8_or_empty(db_slice)]]
               [] field_type = 3 -> SetDate(group, "creation", db_slice)
               [] field_type = 4 -> SetDate(group, "last_mod", db_slice)
               [] field_type = 5 -> SetDate(group, "last_access", db_slice)
               [] field_type = 6 -> SetDate(group, "expire", db_slice)
               [] field_type = 7 -> SetNum(group, "image", slice_to_u32(db_slice))
               [] field_type = 8 -> SetNum(group, "level", slice_to_u16(db_slice))
               [] field_type = 9 -> SetNum(group, "flags", slice_to_u32(db_slice))
               [] OTHER -> [err |-> "Ok", val |-> group]

(***************************************************************************)
(* read_entry_field.  The password field unwraps from_utf8: invalid UTF-8  *)
(* panics there.  uuid and binary copy db_slice[0 .. field_size - 1].      *)
(***************************************************************************)
IsEntryString(field_type) == (field_type >= 4 /\ field_type <= 8) \/ field_type = 13

SetStr(obj, f, slice) ==
    [err |-> "Ok", val |-> [obj EXCEPT ![f] = from_utf8_or_empty(slice)]]

\* SecureString::new(str::from_utf8(db_slice).unwrap().to_string())
SetPassword(entry, slice) ==
    IF Utf8Valid(slice)
    THEN [err |-> "Ok", val |-> [entry EXCEPT !.password = slice]]
    ELSE [err |-> "Panic", val |-> entry]

read_entry_field(entry, field_type, field_size, db, p) ==
    IF ~FieldSliceOk(db, p, field_size, IsEntryString(field_type))
    THEN [err |-> "Panic", val |-> entry]
    ELSE LET db_slice == FieldSlice(db, p, field_size, IsEntryString(field_type))
         IN  CASE field_type = 1 -> [err |-> "Ok", val |-> [entry EXCEPT !.uuid = db_slice]]
               [] field_type = 2 -> SetNum(entry, "group_id", slice_to_u32(db_slice))
               [] field_type = 3 -> SetNum(entry, "image", slice_to_u32(db_slice))
               [] field_type = 4 -> SetStr(entry, "title", db_slice)
               [] field_type = 5 -> SetStr(entry, "url", db_slice)
               [] field_type = 6 -> SetStr(entry, "username", db_slice)
               [] field_type = 7 -> SetPassword(entry, db_slice)
               [] field_type = 8 -> SetStr(entry, "comment", db_slice)
               [] field_type = 9 -> SetDate(entry, "creation", db_slice)
               [] field_type = 10 -> SetDate(entry, "last_mod", db_slice)
               [] field_type = 11 -> SetDate(entry, "last_access", db_slice)
               [] field_type = 12 -> SetDate(entry, "expire", db_slice)
               [] field_type = 13 -> SetStr(entry, "binary_desc", db_slice)
               [] field_type = 14 -> [err |-> "Ok", val |-> [entry EXCEPT !.binary = db_slice]]
               [] OTHER -> [err |-> "Ok", val |-> entry]

(***************************************************************************)
(* parse_groups.  st is the loop state [pos, number, levels, cur, out];    *)
(* g names this run's allocations.  The result of read_group_field is      *)
(* dropped (`let _ =`): only a panic inside it ends the parse.             *)
(***************************************************************************)
ParseFail(e) == [err |-> e, out |-> <<>>, levels |-> <<>>, pos |-> 0]

\* the `break` test taken one record early
LastRecordEarly(number, count) == number + 1 = count

\* the `break` test after a record's end marker (lines 232 and 280)
LastRecord(number, count) == number = count

RECURSIVE parse_groups_loop(_, _, _, _)
parse_groups_loop(num_groups, db, g, st) ==
    IF ~(st.number < num_groups)
    THEN [err |-> "Ok", out |-> st.out, levels |-> st.levels, pos |-> st.pos]
    ELSE IF ~SliceOk(db, st.pos, st.pos + 2) THEN ParseFail("Panic")
    ELSE
    LET ft == slice_to_u16(Slice(db, st.pos, st.pos + 2))
        p2 == st.pos + 2
    IN  IF ft.err # "Ok" THEN ParseFail(ft.err)
        ELSE IF p2 > Len(db) THEN ParseFail("OffsetErr")
        ELSE IF ~SliceOk(db, p2, p2 + 4) THEN ParseFail("Panic")
        ELSE
        LET fs == slice_to_u32(Slice(db, p2, p2 + 4))
            p6 == p2 + 4
        IN  IF fs.err # "Ok" THEN ParseFail(fs.err)
            ELSE IF p6 > Len(db) THEN ParseFail("OffsetErr")
            ELSE
            LET rd  == read_group_field(st.cur, ft.val, fs.val, db, p6)
                lv  == IF ft.val = 8 THEN Append(st.levels, rd.val.level) ELSE st.levels
                end == ft.val # 8 /\ ft.val = 65535
                out == IF end THEN Append(st.out, rd.val) ELSE st.out
                num == IF end THEN st.number + 1 ELSE st.number
                cur == IF end THEN V1GroupNew(GroupRef(g, num + 1)) ELSE rd.val
                pn  == p6 + fs.val
            IN  IF rd.err = "Panic" THEN ParseFail("Panic")
                ELSE IF end /\ LastRecord(num, num_groups)
                THEN [err |-> "Ok", out |-> out, levels |-> lv, pos |-> p6]
                ELSE IF pn > Len(db) THEN ParseFail("OffsetErr")
                ELSE parse_groups_loop(num_groups, db, g,
                        [pos |-> pn, number |-> num, levels |-> lv, cur |-> cur, out |-> out])

parse_groups(hdr, decrypted_database, g) ==
    parse_groups_loop(U32Val(hdr.num_groups), decrypted_database, g,
        [pos |-> 0, number |-> 0, levels |-> <<>>,
         cur |-> V1GroupNew(GroupRef(g, 1)), out |-> <<>>])

(***************************************************************************)
(* parse_entries: the same loop from the remembered position, without      *)
(* levels.                                                                 *)
(***************************************************************************)
RECURSIVE parse_entries_loop(_, _, _, _)
parse_entries_loop(num_entries, db, g, st) ==
    IF ~(st.number < num_entries)
    THEN [err |-> "Ok", out |-> st.out, levels |-> <<>>, pos |-> st.pos]
    ELSE IF ~SliceOk(db, st.pos, st.pos + 2) THEN ParseFail("Panic")
    ELSE
    LET ft == slice_to_u16(Slice(db, st.pos, st.pos + 2))
        p2 == st.pos + 2
    IN  IF ft.err # "Ok" THEN ParseFail(ft.err)
        ELSE IF p2 > Len(db) THEN ParseFail("OffsetErr")
        ELSE IF ~SliceOk(db, p2, p2 + 4) THEN ParseFail("Panic")
        ELSE
        LET fs == slice_to_u32(Slice(db, p2, p2 + 4))
            p6 == p2 + 4
        IN  IF fs.err # "Ok" THEN ParseFail(fs.err)
            ELSE IF p6 > Len(db) THEN ParseFail("OffsetErr")
            ELSE
            LET rd  == read_entry_field(st.cur, ft.val, fs.val, db, p6)
                end == ft.val = 65535
                out == IF end THEN Append(st.out, rd.val) ELSE st.out
                num == IF end THEN st.number + 1 ELSE st.number
                cur == IF end THEN V1EntryNew(EntryRef(g, num + 1)) ELSE rd.val
                pn  == p6 + fs.val
            IN  IF rd.err = "Panic" THEN ParseFail("Panic")
                ELSE IF end /\ LastRecord(num, num_entries)
                THEN [err |-> "Ok", out |-> out, levels |-> <<>>, pos |-> p6]
                ELSE IF pn > Len(db) THEN ParseFail("OffsetErr")
                ELSE parse_entries_loop(num_entries, db, g,
                        [pos |-> pn, number |-> num, levels |-> <<>>, cur |-> cur, out |-> out])

parse_entries(hdr, decrypted_database, g, remembered_pos) ==
    parse_entries_loop(U32Val(hdr.num_entries), decrypted_database, g,
        [pos |-> remembered_pos, number |-> 0, levels |-> <<>>,
         cur |-> V1EntryNew(EntryRef(g, 1)), out |-> <<>>])

(***************************************************************************)
(* create_group_tree.  The result carries the database as the call left    *)
(* it: on TreeErr and on a panic the links made so far stay.  levels[k]    *)
(* with k >= levels.len() panics.                                          *)
(***************************************************************************)
\* line 386: "the first group with a lower level than the current"
IsLower(lj, li) == lj < li

\* scan_parent without the test that the parent is exactly one level up
RECURSIVE scan_parent_any_lower(_, _, _)
scan_parent_any_lower(lv, i, j) ==
    IF IsLower(lv[j + 1], lv[i + 1])
    THEN [err |-> "Ok", j |-> j]
    ELSE IF j = 0
         THEN [err |-> "TreeErr", j |-> j]
         ELSE scan_parent_any_lower(lv, i, j - 1)

\* lines 383-401: the backward scan from j for the parent of group i (0-based)
RECURSIVE scan_parent(_, _, _)
scan_parent(lv, i, j) ==
    IF IsLower(lv[j + 1], lv[i + 1])
    THEN IF lv[i + 1] - lv[j + 1] # 1
         THEN [err |-> "TreeErr", j |-> j]
         ELSE [err |-> "Ok", j |-> j]
    ELSE IF j = 0
         THEN [err |-> "TreeErr", j |-> j]
         ELSE scan_parent(lv, i, j - 1)

\* the parent link left out
set_parent_skipped(group, p) == group

\* lines 378 and 390: group.parent = Some(p)
set_parent(group, p) == [group EXCEPT !.parent = p.oid]

\* lines 379 and 391: p.children.push(child)
push_child(p, child) == [p EXCEPT !.children = Append(@, child.oid)]

\* lines 374-402: the loop over the groups, from index i (0-based)
RECURSIVE link_groups(_, _, _, _)
link_groups(lv, i, gs, root) ==
    IF i >= Len(gs) THEN [err |-> "Ok", groups |-> gs, root |-> root]
    ELSE IF i >= Len(lv) THEN [err |-> "Panic", groups |-> gs, root |-> root]
    ELSE IF lv[i + 1] = 0
    THEN link_groups(lv, i + 1,
             [gs EXCEPT ![i + 1] = set_parent(@, root)],
             push_child(root, gs[i + 1]))
    ELSE LET sp == scan_parent(lv, i, i - 1)
         IN  IF sp.err # "Ok"
             THEN [err |-> sp.err, groups |-> gs, root |-> root]
             ELSE link_groups(lv, i + 1,
                      [gs EXCEPT ![i + 1] = set_parent(@, gs[sp.j + 1]),
                                 ![sp.j + 1] = push_child(@, gs[i + 1])],
                      root)

\* lines 407-414: entry e (1-based) against the groups from g (1-based) on
RECURSIVE link_entries(_, _, _, _)
link_entries(e, g, gs, es) ==
    IF e > Len(es) THEN [groups |-> gs, entries |-> es]
    ELSE IF g > Len(gs) THEN link_entries(e + 1, 1, gs, es)
    ELSE IF es[e].group_id = gs[g].id
    THEN link_entries(e, g + 1,
             [gs EXCEPT ![g].entries = Append(@, es[e].oid)],
             [es EXCEPT ![e].group = gs[g].oid])
    ELSE link_entries(e, g + 1, gs, es)

create_group_tree(gs, es, root, lv) ==
    IF Len(lv) = 0 THEN [err |-> "Panic", groups |-> gs, entries |-> es, root |-> root]
    ELSE IF lv[1] # 0 THEN [err |-> "TreeErr", groups |-> gs, entries |-> es, root |-> root]
    ELSE LET lg == link_groups(lv, 0, gs, root)
             le == link_entries(1, 1, lg.groups, es)
         IN  IF lg.err # "Ok"
             THEN [err |-> lg.err, groups |-> lg.groups, entries |-> es, root |-> lg.root]
             ELSE [err |-> "Ok", groups |-> le.groups, entries |-> le.entries,
                   root |-> lg.root]

(***************************************************************************)
(* The file.  Its header part is the 124 bytes read_header_ consumes:      *)
(* the u32 fields as their four little-endian bytes, the seeds, the IV and *)
(* the hash as tokens; size is the number of bytes the file really holds   *)
(* of them.  Its body is a ciphertext.                                     *)
(***************************************************************************)
HeaderLen == 124

\* read_le_u32
read_le_u32(b) == <<b[4], b[3], b[2], b[1]>>

\* read_header_: every short read is an IoError
read_header_(f) ==
    IF f.size < HeaderLen
    THEN [err |-> "IoError", val |-> <<>>]
    ELSE [err |-> "Ok",
          val |-> [signature1 |-> read_le_u32(f.signature1),
                   signature2 |-> read_le_u32(f.signature2),
                   enc_flag |-> read_le_u32(f.enc_flag),
                   version |-> read_le_u32(f.version),
                   final_randomseed |-> f.final_randomseed,
                   iv |-> f.iv,
                   num_groups |-> read_le_u32(f.num_groups),
                   num_entries |-> read_le_u32(f.num_entries),
                   contents_hash |-> f.contents_hash,
                   transf_randomseed |-> f.transf_randomseed,
                   key_transf_rounds |-> read_le_u32(f.key_transf_rounds)]]

\* 0x9AA2D903, 0xB54BFB65, 0x00030002
Signature1 == <<154, 162, 217, 3>>

Signature2 == <<181, 75, 251, 101>>

Version == <<0, 3, 0, 2>>

check_signatures(h) ==
    IF h.signature1 # Signature1 \/ h.signature2 # Signature2 THEN "SignatureErr" ELSE "Ok"

check_enc_flag(h) == IF ~BitSet(h.enc_flag[4], 2) THEN "EncFlagErr" ELSE "Ok"

check_version(h) == IF h.version # Version THEN "VersionErr" ELSE "Ok"

\* the three checks with the flag looked at before the signatures
validate_flag_first(h) ==
    IF check_enc_flag(h) # "Ok" THEN check_enc_flag(h)
    ELSE IF check_signatures(h) # "Ok" THEN check_signatures(h)
    ELSE check_version(h)

\* lines 80-82 of read_header: the three try!s in their order
validate(h) ==
    IF check_signatures(h) # "Ok" THEN check_signatures(h)
    ELSE IF check_enc_flag(h) # "Ok" THEN check_enc_flag(h)
    ELSE check_version(h)

read_header(f) ==
    IF ~f.exists THEN [err |-> "FileErr", val |-> <<>>]
    ELSE LET h == read_header_(f)
         IN  IF h.err # "Ok" THEN [err |-> "ReadErr", val |-> <<>>]
             ELSE [err |-> validate(h.val), val |-> h.val]

(***************************************************************************)
(* The primitives the code consumes, as ideal functions: SHA-256 is an     *)
(* injective constructor, the AES-ECB rounds a constructor of seed, rounds *)
(* and key, and AES-CBC decryption returns the encrypted bytes under the   *)
(* key and IV they were encrypted with and the ciphertext's garbage under  *)
(* any other.                                                              *)
(***************************************************************************)
SHA256(x) == <<"sha256", x>>

AesEcbRounds(seed, rounds, key) == <<"aes_ecb", seed, rounds, key>>

symm_decrypt(key, iv, c) == IF key = c.key /\ iv = c.iv THEN c.data ELSE c.garbage

(***************************************************************************)
(* SecureString: the secret it protects and whether its buffer `string`    *)
(* is locked.  StringOf is what a read of `string` sees.                   *)
(***************************************************************************)
SecureStringNew(s) == [secret |-> s, locked |-> TRUE]

unlock(p) == [p EXCEPT !.locked = FALSE]

delete(p) == [p EXCEPT !.locked = TRUE]

StringOf(p) == <<"string", p.secret, p.locked>>

\* a released Vec of key material: which one, and whether it was zeroed before
Released(b, k, z) == [buf |-> b, round |-> k, zeroed |-> z]

NoKey == <<"none", <<>>>>

\* get_passwordkey without the closing delete
get_passwordkey_no_delete(pw) ==
    LET unlocked == unlock(pw)
    IN  [key |-> SHA256(StringOf(unlocked)), password |-> unlocked]

\* get_passwordkey: unlock, hash password.string, delete
get_passwordkey(pw) ==
    LET unlocked == unlock(pw)
    IN  [key |-> SHA256(StringOf(unlocked)), password |-> delete(unlocked)]

\* transform_key.  Every `masterkey = ...` drops the Vec masterkey held: the
\* password key and the result of each round, as they are; only the last value
\* (the hash of the transformed key) is zeroed before it is dropped.
transform_key(masterkey, h) ==
    LET rounds == U32Val(h.key_transf_rounds)
    IN  [key |-> SHA256(<<h.final_randomseed,
                          SHA256(AesEcbRounds(h.transf_randomseed, rounds, masterkey))>>),
         released |-> [k \in 1..(rounds + 1) |-> Released("masterkey", k - 1, FALSE)]
                         \o <<Released("K_trans", rounds, TRUE)>>]

\* decrypt_it: finalkey is zeroed after the decryption and dropped at the end.
\* The last byte is the padding length; db_tmp[len - 1] panics on an empty Vec,
\* and a padding above the length underflows the new length
decrypt_it(fkey, crypted_database, h) ==
    LET db_tmp == symm_decrypt(fkey, h.iv, crypted_database)
        rel    == <<Released("finalkey", 0, TRUE)>>
    IN  IF db_tmp = <<>> \/ Last(db_tmp) > Len(db_tmp)
        THEN [err |-> "Panic", val |-> <<>>, released |-> rel]
        ELSE [err |-> "Ok", val |-> SubSeq(db_tmp, 1, Len(db_tmp) - Last(db_tmp)),
              released |-> rel]

MaxPlainLen == 2147483446

check_decryption_success(h, decrypted_content) ==
    IF Len(decrypted_content) > MaxPlainLen
         \/ (Len(decrypted_content) = 0 /\ U32Val(h.num_groups) > 0)
    THEN "DecryptErr" ELSE "Ok"

check_content_hash(h, decrypted_content) ==
    IF SHA256(decrypted_content) # h.contents_hash THEN "HashErr" ELSE "Ok"

\* the keyfile is not read: the master key is the password key
decrypt_database(f, pw, h) ==
    IF ~f.exists
    THEN [err |-> "FileErr", val |-> <<>>, password |-> pw, finalkey |-> NoKey,
          released |-> <<>>]
    ELSE LET pk  == get_passwordkey(pw)
             tk  == transform_key(pk.key, h)
             dec == decrypt_it(tk.key, f.body, h)
             out == [err |-> dec.err, val |-> dec.val, password |-> pk.password,
                     finalkey |-> tk.key, released |-> tk.released \o dec.released]
         IN  IF dec.err # "Ok" THEN out
             ELSE IF check_decryption_success(h, dec.val) # "Ok"
             THEN [out EXCEPT !.err = check_decryption_success(h, dec.val), !.val = <<>>]
             ELSE IF check_content_hash(h, dec.val) # "Ok"
             THEN [out EXCEPT !.err = check_content_hash(h, dec.val), !.val = <<>>]
             ELSE out

(***************************************************************************)
(* V1Kpdb::new: an empty database.                                         *)
(***************************************************************************)
Zero32 == <<0, 0, 0, 0>>

V1HeaderNew ==
    [signature1 |-> Zero32, signature2 |-> Zero32, enc_flag |-> Zero32,
     version |-> Zero32, final_randomseed |-> "", iv |-> "",
     num_groups |-> Zero32, num_entries |-> Zero32,
     contents_hash |-> <<"sha256", <<>>>>, transf_randomseed |-> "",
     key_transf_rounds |-> Zero32]

NoFile == [exists |-> FALSE]

NoInput == [grecs |-> <<>>, erecs |-> <<>>, trunc |-> 0]

(***************************************************************************)
(* SpecTree: create_group_tree applied to every database of up to          *)
(* MaxGroups groups and MaxEntries entries as the parser leaves them       *)
(* (unlinked), with a level vector of the groups' length.                  *)
(***************************************************************************)
Levels == {0, 1, 2, 3}

GroupIds == {1, 2}

EntryGroupIds == {1, 2, 3}

ParsedGroup(k, gid, lvl) ==
    [V1GroupNew(GroupRef(1, k)) EXCEPT !.id = gid, !.level = lvl]

ParsedEntry(k, gid) == [V1EntryNew(EntryRef(1, k)) EXCEPT !.group_id = gid]

InitTree ==
    /\ \E n \in 0..MaxGroups : \E lv \in [1..n -> Levels] : \E ids \in [1..n -> GroupIds] :
          /\ levels = lv
          /\ groups = [k \in 1..n |-> ParsedGroup(k, ids[k], lv[k])]
    /\ \E m \in 0..MaxEntries : \E gids \in [1..m -> EntryGroupIds] :
          entries = [k \in 1..m |-> ParsedEntry(k, gids[k])]
    /\ root_group = V1GroupNew(RootRef)
    /\ file = NoFile /\ password = SecureStringNew("test") /\ keyfile = ""
    /\ header = V1HeaderNew
    /\ plain = <<>> /\ pos = 0 /\ gen = 1 /\ res = "none" /\ input = NoInput
    /\ finalkey = NoKey /\ released = <<>> /\ date = Tm0

CreateGroupTree ==
    /\ res = "none"
    /\ \E t \in {create_group_tree(groups, entries, root_group, levels)} :
          /\ groups' = t.groups
          /\ entries' = t.entries
          /\ root_group' = t.root
          /\ res' = t.err
    /\ UNCHANGED <<file, password, keyfile, header, plain, levels, pos, gen, input,
                   finalkey, released, date>>

NextTree == CreateGroupTree

SpecTree == InitTree /\ [][NextTree]_vars

(***************************************************************************)
(* Plaintexts under test.  A field is its type, the size its prefix states *)
(* and its payload; kind says what is wrong with it, if anything.  A       *)
(* record is a sequence of fields closed by the end marker 0xFFFF/0.       *)
(***************************************************************************)
LE16(n) == <<n % 256, n \div 256>>

LE32(n) == <<n % 256, (n \div 256) % 256, (n \div 65536) % 256, n \div 16777216>>

BE32(n) == <<n \div 16777216, (n \div 65536) % 256, (n \div 256) % 256, n % 256>>

Field(t, payload, kind) ==
    [type |-> t, size |-> Len(payload), payload |-> payload, kind |-> kind]

EndField == Field(65535, <<>>, "good")

EncodeField(f) == LE16(f.type) \o LE32(f.size) \o f.payload

EncodeRecord(r) == Flatten([k \in 1..Len(r) |-> EncodeField(r[k])])

EncodeBody(grecs, erecs) ==
    Flatten([k \in 1..Len(grecs) |-> EncodeRecord(grecs[k])])
        \o Flatten([k \in 1..Len(erecs) |-> EncodeRecord(erecs[k])])

\* 2014-02-26 10:30:15 packed as the format packs it
DateBytes == <<31, 120, 181, 71, 143>>

GroupRecs ==
    { <<Field(1, LE32(1), "good"), Field(2, <<73, 110, 0>>, "good"),
        Field(8, LE16(0), "good"), EndField>>,
      <<Field(1, LE32(2), "good"), Field(3, DateBytes, "good"),
        Field(8, LE16(1), "good"), EndField>>,
      <<Field(1, <<1, 0>>, "shortnum"), Field(8, LE16(0), "good"), EndField>>,
      <<Field(1, LE32(2), "good"), Field(2, <<255, 0>>, "badutf8"),
        Field(8, LE16(0), "good"), EndField>>,
      <<Field(1, LE32(1), "good"), Field(32, <<7>>, "unknown"), EndField>>,
      <<Field(1, LE32(2), "good"), Field(8, <<1>>, "shortnum"), EndField>>,
      <<Field(1, LE32(3), "good"), Field(8, LE16(0), "good"), Field(8, LE16(1), "good"),
        EndField>> }

EntryRecs ==
    { <<Field(2, LE32(1), "good"), Field(4, <<102, 111, 111, 0>>, "good"),
        Field(7, <<112, 119, 0>>, "good"), Field(9, DateBytes, "good"), EndField>>,
      <<Field(2, LE32(2), "good"), Field(4, <<255, 0>>, "badutf8"), EndField>>,
      <<Field(2, LE32(1), "good"), Field(7, <<255, 0>>, "badutf8"), EndField>>,
      <<Field(2, <<1, 0>>, "shortnum"), Field(1, <<9, 8>>, "good"), EndField>>,
      <<Field(2, LE32(3), "good"), Field(33, <<>>, "unknown"), EndField>> }

SeqsUpTo(S, n) == UNION {[1..k -> S] : k \in 0..n}

FieldsOf(recs) == UNION {{recs[r][k] : k \in DOMAIN recs[r]} : r \in DOMAIN recs}

Kinds(inp) == {f.kind : f \in FieldsOf(inp.grecs) \cup FieldsOf(inp.erecs)}

CountHeader(ng, ne) ==
    [V1HeaderNew EXCEPT !.num_groups = BE32(ng), !.num_entries = BE32(ne)]

(***************************************************************************)
(* SpecParse: lines 102-105 of load (parse_groups, then parse_entries from *)
(* the remembered position) applied to every plaintext assembled from up   *)
(* to MaxGroupRecs group records and MaxEntryRecs entry records with up to *)
(* MaxTrunc bytes cut off its end; the header counts are the numbers of    *)
(* records.  A plaintext of length 0 never reaches the parser when         *)
(* num_groups > 0 (check_decryption_success).                              *)
(***************************************************************************)
InitParse ==
    /\ \E gr \in SeqsUpTo(GroupRecs, MaxGroupRecs) :
       \E er \in SeqsUpTo(EntryRecs, MaxEntryRecs) :
       \E t \in 0..MaxTrunc :
          LET body == EncodeBody(gr, er)
          IN  /\ t < Len(body) \/ (t = 0 /\ Len(gr) = 0)
              /\ input = [grecs |-> gr, erecs |-> er, trunc |-> t]
              /\ plain = SubSeq(body, 1, Len(body) - t)
              /\ header = CountHeader(Len(gr), Len(er))
    /\ groups = <<>> /\ entries = <<>> /\ levels = <<>>
    /\ root_group = V1GroupNew(RootRef)
    /\ file = NoFile /\ password = SecureStringNew("test") /\ keyfile = ""
    /\ pos = 0 /\ gen = 0 /\ res = "none"
    /\ finalkey = NoKey /\ released = <<>> /\ date = Tm0

ParseBody ==
    /\ res = "none"
    /\ gen' = gen + 1
    /\ \E pg \in {parse_groups(header, plain, gen + 1)} :
          IF pg.err # "Ok"
          THEN res' = pg.err /\ UNCHANGED <<groups, levels, pos, entries>>
          ELSE /\ groups' = pg.out
               /\ levels' = pg.levels
               /\ pos' = pg.pos
               /\ \E pe \in {parse_entries(header, plain, gen + 1, pg.pos)} :
                     IF pe.err # "Ok"
                     THEN res' = pe.err /\ UNCHANGED entries
                     ELSE res' = "Ok" /\ entries' = pe.out
    /\ UNCHANGED <<file, password, keyfile, header, root_group, plain, input, finalkey,
                   released, date>>

NextParse == ParseBody

SpecParse == InitParse /\ [][NextParse]_vars

(***************************************************************************)
(* load.  The result carries the database as the call leaves it, and the   *)
(* locals plain, levels and pos as far as the call got.  g names the       *)
(* objects this call allocates.  The header is stored once read_header     *)
(* succeeded (line 97), the groups as soon as they are parsed (line 104).  *)
(***************************************************************************)
load(h0, gs, es, root, pw, f, g) ==
    LET b0 == [err |-> "Ok", header |-> h0, groups |-> gs, entries |-> es, root |-> root,
               plain |-> <<>>, levels |-> <<>>, pos |-> 0, password |-> pw,
               finalkey |-> NoKey, released |-> <<>>]
        rh == read_header(f)
        dd == decrypt_database(f, pw, rh.val)
        pg == parse_groups(rh.val, dd.val, g)
        pe == parse_entries(rh.val, dd.val, g, pg.pos)
        t  == create_group_tree(pg.out, pe.out, root, pg.levels)
        b1 == [b0 EXCEPT !.header = rh.val, !.password = dd.password,
                         !.finalkey = dd.finalkey, !.released = dd.released]
        b2 == [b1 EXCEPT !.plain = dd.val]
        b3 == [b2 EXCEPT !.groups = pg.out, !.levels = pg.levels, !.pos = pg.pos]
    IN  IF rh.err # "Ok" THEN [b0 EXCEPT !.err = rh.err]
        ELSE IF dd.err # "Ok" THEN [b1 EXCEPT !.err = dd.err]
        ELSE IF pg.err # "Ok" THEN [b2 EXCEPT !.err = pg.err]
        ELSE IF pe.err # "Ok" THEN [b3 EXCEPT !.err = pe.err]
        ELSE [b3 EXCEPT !.err = t.err, !.groups = t.groups, !.entries = t.entries,
                        !.root = t.root]

(***************************************************************************)
(* Files under test.                                                       *)
(***************************************************************************)
Sig1Bytes == <<3, 217, 162, 154>>

Sig2Bytes == <<101, 251, 75, 181>>

VersionBytes == <<2, 0, 3, 0>>

Pkcs7(body) == LET k == 16 - (Len(body) % 16) IN [i \in 1..k |-> k]

Encrypt(pw, ng, body) ==
    [key |-> transform_key(get_passwordkey(SecureStringNew(pw)).key,
                 [final_randomseed |-> "fseed", transf_randomseed |-> "tseed",
                  key_transf_rounds |-> BE32(6)]).key,
     iv |-> "iv",
     data |-> body \o Pkcs7(body),
     garbage |-> <<5, 9, 1>>]

\* a file written for password pw whose header states ng groups and ne entries
MkFile(pw, ng, ne, body) ==
    [exists |-> TRUE, size |-> HeaderLen + Len(body \o Pkcs7(body)),
     signature1 |-> Sig1Bytes, signature2 |-> Sig2Bytes,
     enc_flag |-> LE32(3), version |-> VersionBytes,
     final_randomseed |-> "fseed", iv |-> "iv",
     num_groups |-> LE32(ng), num_entries |-> LE32(ne),
     contents_hash |-> SHA256(body), transf_randomseed |-> "tseed",
     key_transf_rounds |-> LE32(6),
     body |-> Encrypt(pw, ng, body)]

DbFile(grecs, erecs) == MkFile("test", Len(grecs), Len(erecs), EncodeBody(grecs, erecs))

GRec(id, lvl) ==
    <<Field(1, LE32(id), "good"), Field(2, <<64 + id, 0>>, "good"),
      Field(8, LE16(lvl), "good"), EndField>>

ERec(gid) ==
    <<Field(2, LE32(gid), "good"), Field(4, <<96 + gid, 0>>, "good"),
      Field(7, <<112, 0>>, "good"), EndField>>

\* an entry record that ends one byte inside its title
ERecCut == <<Field(2, LE32(1), "good"), [Field(4, <<97>>, "good") EXCEPT !.size = 2]>>

TheFile == DbFile(<<GRec(1, 0), GRec(2, 1)>>, <<ERec(2)>>)

BodyFiles ==
    { DbFile(<<>>, <<>>),
      DbFile(<<GRec(1, 0)>>, <<>>),
      DbFile(<<GRec(1, 0)>>, <<ERec(1)>>),
      TheFile,
      DbFile(<<GRec(1, 0), GRec(2, 1), GRec(3, 1)>>, <<ERec(3), ERec(1)>>),
      DbFile(<<GRec(1, 0), GRec(2, 1), GRec(3, 2)>>, <<ERec(3)>>),
      DbFile(<<GRec(1, 0), GRec(2, 0)>>, <<ERec(2), ERec(2)>>),
      DbFile(<<GRec(1, 0), GRec(2, 2)>>, <<>>),
      DbFile(<<GRec(1, 1)>>, <<>>),
      DbFile(<<GRec(1, 0)>>, <<ERec(3)>>),
      DbFile(<<GRec(1, 0), GRec(1, 1)>>, <<ERec(1)>>),
      DbFile(<<GRec(1, 0)>>, <<ERecCut>>),
      DbFile(<<GRec(1, 0)>>,
             <<<<Field(2, LE32(1), "good"), Field(7, <<255, 0>>, "badutf8"), EndField>>>>),
      DbFile(<<<<Field(1, LE32(1), "good"), EndField>>>>, <<>>),
      DbFile(<<<<Field(1, <<1, 0>>, "shortnum"), Field(8, LE16(0), "good"), EndField>>>>,
             <<ERec(1)>>),
      MkFile("test", 1, 1, EncodeBody(<<GRec(1, 0), GRec(2, 1)>>, <<>>)) }

HeaderFaults ==
    { [exists |-> FALSE],
      [TheFile EXCEPT !.size = 100],
      [TheFile EXCEPT !.signature1 = <<154, 162, 217, 3>>],
      [TheFile EXCEPT !.enc_flag = LE32(1)],
      [TheFile EXCEPT !.version = <<1, 0, 3, 0>>] }

\* written for another password; a stated hash that is not the body's; bodies
\* that decrypt to nothing but padding (an empty plaintext), with the hash of
\* the empty plaintext and with another one; a wrong-key decryption whose last
\* byte exceeds its length; a file that ends with its header
CryptFaults ==
    { MkFile("tes", 1, 0, EncodeBody(<<GRec(1, 0)>>, <<>>)),
      [TheFile EXCEPT !.contents_hash = SHA256(<<>>)],
      [MkFile("test", 1, 0, <<>>) EXCEPT !.body.data = <<0>>],
      MkFile("test", 1, 0, <<>>),
      [MkFile("test", 1, 0, <<>>) EXCEPT !.contents_hash = SHA256(<<1>>)],
      [MkFile("tes", 1, 0, EncodeBody(<<GRec(1, 0)>>, <<>>)) EXCEPT
          !.body.garbage = <<5, 9, 7>>],
      [MkFile("test", 1, 0, <<>>) EXCEPT !.size = HeaderLen, !.body.data = <<>>] }

Files == BodyFiles \cup HeaderFaults \cup CryptFaults

(***************************************************************************)
(* Spec: a database created by V1Kpdb::new with a password and a keyfile   *)
(* path (either may be empty) on which load is called up to MaxLoads       *)
(* times, the file at its path being any of Files at each call.  A panic   *)
(* ends the task.                                                          *)
(***************************************************************************)
Passwords == {"test", ""}

Keyfiles == {"", "kf1", "kf2"}

Init ==
    /\ file = NoFile /\ header = V1HeaderNew
    /\ \E pw \in Passwords : password = SecureStringNew(pw)
    /\ keyfile \in Keyfiles
    /\ groups = <<>> /\ entries = <<>> /\ root_group = V1GroupNew(RootRef)
    /\ plain = <<>> /\ levels = <<>> /\ pos = 0 /\ gen = 0 /\ res = "none"
    /\ input = NoInput
    /\ finalkey = NoKey /\ released = <<>> /\ date = Tm0

Load ==
    /\ gen < MaxLoads
    /\ res # "Panic"
    /\ \E f \in Files :
       \E r \in {load(header, groups, entries, root_group, password, f, gen + 1)} :
          /\ file' = f
          /\ header' = r.header
          /\ groups' = r.groups
          /\ entries' = r.entries
          /\ root_group' = r.root
          /\ plain' = r.plain
          /\ levels' = r.levels
          /\ pos' = r.pos
          /\ res' = r.err
          /\ password' = r.password
          /\ finalkey' = r.finalkey
          /\ released' = r.released
    /\ gen' = gen + 1
    /\ UNCHANGED <<keyfile, input, date>>

Next == Load

Spec == Init /\ [][Next]_vars

(***************************************************************************)
(* SpecHeader: read_header applied to every file whose header part is cut  *)
(* short or holds any combination of good and bad signature, flag and      *)
(* version bytes.                                                          *)
(***************************************************************************)
HeaderFiles ==
    { [TheFile EXCEPT !.exists = e, !.size = n, !.signature1 = s1, !.signature2 = s2,
                      !.enc_flag = LE32(fl), !.version = v] :
        e \in BOOLEAN, n \in {0, 4, 123, 124, 292},
        s1 \in {Sig1Bytes, <<154, 162, 217, 3>>, Sig2Bytes},
        s2 \in {Sig2Bytes, Sig1Bytes},
        fl \in {0, 1, 2, 3, 6},
        v \in {VersionBytes, <<1, 0, 3, 0>>, <<0, 0, 3, 0>>, <<2, 0, 2, 0>>,
               <<2, 1, 3, 0>>, <<0, 3, 0, 2>>} }

InitHeader ==
    /\ file \in HeaderFiles
    /\ password = SecureStringNew("test") /\ keyfile = "" /\ header = V1HeaderNew
    /\ groups = <<>> /\ entries = <<>> /\ root_group = V1GroupNew(RootRef)
    /\ plain = <<>> /\ levels = <<>> /\ pos = 0 /\ gen = 0 /\ res = "none"
    /\ input = NoInput
    /\ finalkey = NoKey /\ released = <<>> /\ date = Tm0

ReadHeader ==
    /\ res = "none"
    /\ \E r \in {read_header(file)} :
          /\ res' = r.err
          /\ header' = IF r.err = "Ok" THEN r.val ELSE header
    /\ UNCHANGED <<file, password, keyfile, groups, entries, root_group, plain, levels,
                   pos, gen, input, finalkey, released, date>>

NextHeader == ReadHeader

SpecHeader == InitHeader /\ [][NextHeader]_vars

(***************************************************************************)
(* Claims about create_group_tree (checked under SpecTree).                *)
(***************************************************************************)
Max(S) == CHOOSE x \in S : \A y \in S : y <= x

LowerBefore(lv, i) == {j \in 1..(i - 1) : lv[j] < lv[i]}

\* C1: when create_group_tree succeeds, every group with levels[i] > 0 has as
\* parent the group at the greatest index j < i with levels[j] < levels[i], and
\* levels[j] = levels[i] - 1; every group with levels[i] = 0 has root_group as
\* parent.
C1_ParentIsNearestLower ==
    res = "Ok" =>
        \A i \in 1..Len(groups) :
            IF levels[i] = 0
            THEN groups[i].parent = RootRef
            ELSE /\ LowerBefore(levels, i) # {}
                 /\ LET j == Max(LowerBefore(levels, i))
                    IN  /\ groups[i].parent = groups[j].oid
                        /\ levels[j] = levels[i] - 1

\* C1 witness: a successful build in which a group's parent is not the group
\* right before it (the scan passed over a sibling), beside a level-0 group.
C1_Witness ==
    /\ res = "Ok"
    /\ \E i \in 1..Len(groups) :
          /\ levels[i] > 0
          /\ groups[i].parent # groups[i - 1].oid
          /\ groups[i].parent = groups[Max(LowerBefore(levels, i))].oid
    /\ \E i \in 1..Len(groups) : groups[i].parent = RootRef

\* The level vectors the specification rejects: levels[0] # 0, or a group with
\* levels[i] > 0 that has no earlier group of lower level, or whose nearest one is
\* not exactly one level up.
BadLevels(lv) ==
    \/ Len(lv) > 0 /\ lv[1] # 0
    \/ \E i \in 1..Len(lv) :
          /\ lv[i] > 0
          /\ \/ LowerBefore(lv, i) = {}
             \/ lv[i] - lv[Max(LowerBefore(lv, i))] # 1

\* C2: create_group_tree fails with TreeErr exactly on the rejected level vectors
\* and returns Ok for every other level vector of the groups' length.
C2_TreeErrExactly ==
    res # "none" => IF BadLevels(levels) THEN res = "TreeErr" ELSE res = "Ok"

\* C3: if some entry's group_id is the id of no group, tree building fails with
\* TreeErr.
C3_OrphanEntryIsTreeErr ==
    (/\ res \notin {"none", "Panic"}
     /\ \E e \in 1..Len(entries) :
           \A g \in 1..Len(groups) : groups[g].id # entries[e].group_id)
    => res = "TreeErr"

(***************************************************************************)
(* Claims about the body parser (checked under SpecParse).                 *)
(***************************************************************************)
\* C7: a plaintext that ends inside a field's 6-byte prefix or inside its payload
\* makes the parse return OffsetErr, and nothing is read outside the plaintext
\* before that (an out-of-bounds read is a panic of the parse).
C7_OverrunIsOffsetErr ==
    (/\ res # "none"
     /\ input.trunc > 0
     /\ Kinds(input) \subseteq {"good", "unknown"})
    => res = "OffsetErr"

\* C8: a numeric field (group id, image, level, flags; entry group_id, image)
\* whose payload is shorter than its integer makes the parse return ConvertErr.
C8_ShortNumericIsConvertErr ==
    (/\ res # "none"
     /\ input.trunc = 0
     /\ "shortnum" \in Kinds(input)
     /\ Kinds(input) \subseteq {"good", "unknown", "shortnum"})
    => res = "ConvertErr"

GroupStringField(t) == IF t = 2 THEN "title" ELSE "none"

EntryStringField(t) ==
    CASE t = 4 -> "title" [] t = 5 -> "url" [] t = 6 -> "username"
      [] t = 7 -> "password" [] t = 8 -> "comment" [] t = 13 -> "binary_desc"
      [] OTHER -> "none"

\* C9: a string field whose payload is not valid UTF-8 is decoded as the empty
\* string and parsing goes on: on a plaintext whose only defect is such payloads
\* the parse succeeds, and each of these fields is empty in its group or entry.
C9_InvalidUtf8IsEmpty ==
    (/\ res # "none"
     /\ input.trunc = 0
     /\ Kinds(input) \subseteq {"good", "unknown", "badutf8"})
    => /\ res = "Ok"
       /\ \A r \in DOMAIN input.grecs : \A k \in DOMAIN input.grecs[r] :
             LET f == input.grecs[r][k]
             IN  f.kind = "badutf8" => groups[r][GroupStringField(f.type)] = <<>>
       /\ \A r \in DOMAIN input.erecs : \A k \in DOMAIN input.erecs[r] :
             LET f == input.erecs[r][k]
             IN  f.kind = "badutf8" => entries[r][EntryStringField(f.type)] = <<>>

(***************************************************************************)
(* Claims about load (checked under Spec).                                 *)
(***************************************************************************)
Occurrences(seq, x) == Cardinality({k \in DOMAIN seq : seq[k] = x})

GroupsWithId(id) == {g \in DOMAIN groups : groups[g].id = id}

\* C4: after a successful load every entry's group_id is the id of exactly one
\* group, the entry's group link is that group, and the entry is exactly once in
\* that group's entries list and in no other group's.
C4_EntryInExactlyOneGroup ==
    res = "Ok" =>
        \A e \in DOMAIN entries :
            /\ Cardinality(GroupsWithId(entries[e].group_id)) = 1
            /\ \A g \in DOMAIN groups :
                  IF groups[g].id = entries[e].group_id
                  THEN /\ entries[e].group = groups[g].oid
                       /\ Occurrences(groups[g].entries, entries[e].oid) = 1
                  ELSE Occurrences(groups[g].entries, entries[e].oid) = 0

ErrorNames ==
    {"FileErr", "ReadErr", "SignatureErr", "EncFlagErr", "VersionErr", "DecryptErr",
     "HashErr", "OffsetErr", "ConvertErr", "TreeErr"}

\* C5: load is all-or-nothing: when it returns an error, the header, the groups,
\* the entries and root_group, with every link in them, are what they were before
\* the call.
C5_LoadAllOrNothing ==
    [][res' \in ErrorNames =>
          /\ header' = header
          /\ groups' = groups
          /\ entries' = entries
          /\ root_group' = root_group]_vars

\* C6: after every successful load header.num_groups is the length of the groups
\* list and header.num_entries the length of the entries list.
C6_CountsMatchLists ==
    res = "Ok" =>
        /\ U32Val(header.num_groups) = Len(groups)
        /\ U32Val(header.num_entries) = Len(entries)

\* C6 witness: a successful load of a database of several groups and entries.
C6_Witness == res = "Ok" /\ Len(groups) >= 2 /\ Len(entries) >= 2

(***************************************************************************)
(* Claims about read_header (checked under SpecHeader).  The conditions    *)
(* are stated on the bytes of the file.                                    *)
(***************************************************************************)
FileOpens == file.exists

FileHasHeader == file.size >= HeaderLen

FileSignaturesOk == file.signature1 = Sig1Bytes /\ file.signature2 = Sig2Bytes

FileEncFlagOk == (file.enc_flag[1] \div 2) % 2 = 1

\* the version is in 0x000300xx: every version outside it fails the invariant
FileVersionInRange == file.version[4] = 0 /\ file.version[3] = 3 /\ file.version[2] = 0

\* C10: header parsing reports one error, the earliest in the order FileErr (the
\* file does not open), ReadErr (fewer than 124 bytes), SignatureErr, EncFlagErr,
\* VersionErr; a later error is reported only when every earlier check passes, and
\* Ok only when all pass.
C10_FirstFailureReported ==
    res # "none" =>
        /\ ~FileOpens => res = "FileErr"
        /\ (FileOpens /\ ~FileHasHeader) => res = "ReadErr"
        /\ (FileOpens /\ FileHasHeader /\ ~FileSignaturesOk) => res = "SignatureErr"
        /\ (FileOpens /\ FileHasHeader /\ FileSignaturesOk /\ ~FileEncFlagOk)
              => res = "EncFlagErr"
        /\ (FileOpens /\ FileHasHeader /\ FileSignaturesOk /\ FileEncFlagOk
               /\ ~FileVersionInRange) => res = "VersionErr"
        /\ res = "VersionErr"
              => FileOpens /\ FileHasHeader /\ FileSignaturesOk /\ FileEncFlagOk
        /\ res = "Ok"
              => /\ FileOpens /\ FileHasHeader /\ FileSignaturesOk /\ FileEncFlagOk
                 /\ FileVersionInRange
        /\ res \in {"Ok", "FileErr", "ReadErr", "SignatureErr", "EncFlagErr", "VersionErr"}

\* C10 witness: a header that breaks the signature, the flag and the version
\* invariant at once is reported as SignatureErr.
C10_Witness ==
    /\ res = "SignatureErr"
    /\ FileOpens /\ FileHasHeader
    /\ ~FileEncFlagOk /\ ~FileVersionInRange

\* C11: the version check accepts every version whose value masked by 0xFFFFFF00
\* is 0x00030000 (0x00030000, 0x00030001, 0x00030002, ...) and fails with
\* VersionErr for every other version: on a file that passes every earlier check,
\* read_header returns Ok when the version is in 0x000300xx and VersionErr when not.
C11_VersionMaskAccepted ==
    (/\ res # "none"
     /\ FileOpens /\ FileHasHeader /\ FileSignaturesOk /\ FileEncFlagOk)
    => IF FileVersionInRange THEN res = "Ok" ELSE res = "VersionErr"

(***************************************************************************)
(* Claims about decrypt_database (checked under Spec).                     *)
(***************************************************************************)
HeaderErrors == {"FileErr", "ReadErr", "SignatureErr", "EncFlagErr", "VersionErr"}

\* PKCS#7 padding removed: the last byte counts the bytes to drop
Unpad(d) ==
    IF d = <<>> THEN <<>>
    ELSE SubSeq(d, 1, Len(d) - (IF Last(d) > Len(d) THEN Len(d) ELSE Last(d)))

\* the plaintext of file f opened with password pw
PlaintextOf(f, pw) ==
    LET h == read_header_(f).val
    IN  Unpad(symm_decrypt(transform_key(get_passwordkey(pw).key, h).key, h.iv, f.body))

\* C12: once the header is accepted, a load is decided by the decrypted body in
\* this order: DecryptErr if the plaintext is longer than 2^31 - 202 bytes or is
\* empty while num_groups > 0; otherwise HashErr if SHA-256(plaintext) is not
\* contents_hash; otherwise the plaintext is handed to the parser.  A load that
\* returns DecryptErr or HashErr leaves the groups and the entries as they were.
C12_DecryptCheckOrder ==
    [][res' \notin HeaderErrors =>
          LET p == PlaintextOf(file', password)
          IN  IF Len(p) > MaxPlainLen \/ (Len(p) = 0 /\ U32Val(header'.num_groups) > 0)
              THEN res' = "DecryptErr" /\ groups' = groups /\ entries' = entries
              ELSE IF SHA256(p) # header'.contents_hash
              THEN res' = "HashErr" /\ groups' = groups /\ entries' = entries
              ELSE res' \notin {"DecryptErr", "HashErr"} /\ plain' = p]_vars

\* K_pw and K_kf of section 4.3: the hash of the password bytes, the hash of the
\* keyfile
PasswordKey(pw) == SHA256(<<"string", pw, FALSE>>)

KeyfileKey(kf) == <<"keyfile_hash", kf>>

CompositeKey(pw, kf) ==
    IF pw # "" /\ kf # "" THEN SHA256(<<PasswordKey(pw), KeyfileKey(kf)>>)
    ELSE IF kf # "" THEN KeyfileKey(kf)
    ELSE PasswordKey(pw)

\* C13: the master key that decryption transforms into the final key is
\* SHA-256(K_pw || K_kf) when the database has a password and a keyfile, K_pw with
\* a password only and K_kf with a keyfile only (so equal passwords with different
\* keyfiles give different final keys).
C13_CompositeKeyUsed ==
    (res # "none" /\ res \notin HeaderErrors)
    => finalkey = transform_key(CompositeKey(password.secret, keyfile), header).key

\* C14: every unlock that load / decrypt_database performs on the database
\* password is followed by its lock before the call can fail: whatever a call
\* returns, it leaves the password locked, and an unlock after the call shows the
\* plaintext an unlock before the call showed.
C14_PasswordLockedOnReturn ==
    [][/\ password'.locked
       /\ StringOf(unlock(password')) = StringOf(unlock(password))]_vars

\* C14 witness: a second load that derived its key from the password and
\* succeeded, the password locked again.
C14_Witness ==
    /\ res = "Ok" /\ gen = 2
    /\ finalkey # NoKey
    /\ password.locked
    /\ StringOf(unlock(password)) = <<"string", "test", FALSE>>

\* C15: every buffer that held key material during a load (the password hash,
\* the result of each AES-ECB round, K_trans, the final key) is zeroed before it
\* is released: no buffer is released with key bytes in it.
C15_KeyBuffersZeroed ==
    \A k \in DOMAIN released : released[k].zeroed

(***************************************************************************)
(* SpecDate: get_date applied to the packing of timestamps taken from the  *)
(* ends and the byte borders of every field's range.                       *)
(***************************************************************************)
\* the packing of section 3: year 14 bits, month 4, day 5, hour 5, minute 6,
\* second 6, most significant first
PackDate(t) ==
    <<t.year \div 64,
      (t.year % 64) * 4 + t.month \div 4,
      (t.month % 4) * 64 + t.day * 2 + t.hour \div 16,
      (t.hour % 16) * 16 + t.minute \div 4,
      (t.minute % 4) * 64 + t.second>>

Never == [year |-> 2999, month |-> 12, day |-> 28, hour |-> 23, minute |-> 59, second |-> 59]

Timestamps ==
    [year : {0, 1, 63, 64, 2014, 2999, 16383}, month : {1, 3, 4, 12},
     day : {1, 15, 16, 28, 31}, hour : {0, 15, 16, 23}, minute : {0, 3, 4, 59},
     second : {0, 59}]

InitDate ==
    /\ input \in Timestamps
    /\ plain = PackDate(input)
    /\ date = Tm0
    /\ file = NoFile /\ password = SecureStringNew("test") /\ keyfile = ""
    /\ header = V1HeaderNew
    /\ groups = <<>> /\ entries = <<>> /\ root_group = V1GroupNew(RootRef)
    /\ levels = <<>> /\ pos = 0 /\ gen = 0 /\ res = "none"
    /\ finalkey = NoKey /\ released = <<>>

GetDate ==
    /\ res = "none"
    /\ \E d \in {get_date(plain)} :
          /\ res' = d.err
          /\ date' = d.val
    /\ UNCHANGED <<file, password, keyfile, header, groups, entries, root_group, plain,
                   levels, pos, gen, input, finalkey, released>>

NextDate == GetDate

SpecDate == InitDate /\ [][NextDate]_vars

\* C16: for every timestamp t with year in 0..16383, month in 1..12, day in 1..31,
\* hour in 0..23, minute in 0..59 and second in 0..59, get_date of the 5-byte
\* packing of t returns t; the 'never' sentinel decodes to (2999, 12, 28, 23, 59,
\* 59).
C16_GetDateRoundTrip ==
    res # "none" => res = "Ok" /\ date = input

\* C16 witness: the 'never' sentinel decoded from its packing.
C16_Witness ==
    /\ res = "Ok"
    /\ plain = PackDate(Never)
    /\ date = Never

(***************************************************************************)
(* Claims about the links create_group_tree makes.                         *)
(***************************************************************************)
\* the index of the group the level vector makes the parent of group i; 0 for
\* root_group
ParentIndex(lv, i) == IF lv[i] = 0 THEN 0 ELSE Max(LowerBefore(lv, i))

\* the groups from index i on whose parent index is p, in the list's order
RECURSIVE ChildrenFrom(_, _)
ChildrenFrom(i, p) ==
    IF i > Len(groups) THEN <<>>
    ELSE (IF ParentIndex(levels, i) = p THEN <<groups[i].oid>> ELSE <<>>)
             \o ChildrenFrom(i + 1, p)

\* C17: after create_group_tree succeeds, the children list of every group holds
\* exactly its child groups in the order of the flat group list, and the children
\* list of root_group exactly the level-0 groups in that order (checked under
\* Spec, where create_group_tree runs at the end of every load).
C17_ChildrenInListOrder ==
    res = "Ok" =>
        /\ \A j \in 1..Len(groups) : groups[j].children = ChildrenFrom(1, j)
        /\ root_group.children = ChildrenFrom(1, 0)

(***************************************************************************)
(* Claims about the level vector (checked under SpecParse).                *)
(***************************************************************************)
\* C18: the level vector parse_groups returns is parallel to the group list it
\* returns: one element per group, levels[i] = groups[i].level, for every sequence
\* of group records, also one without a level field 0x0008 and one with several.
C18_LevelsParallelToGroups ==
    res = "Ok" =>
        /\ Len(levels) = Len(groups)
        /\ \A i \in 1..Len(groups) : levels[i] = groups[i].level

(***************************************************************************)
(* Claims about parent and children links (checked under SpecTree).        *)
(***************************************************************************)
\* the groups and root_group, by the reference that names them
Owners == {groups[k] : k \in 1..Len(groups)} \cup {root_group}

OwnerOf(ref) == CHOOSE p \in Owners : p.oid = ref

\* the number of parent links from the object named ref to root_group; -1 when
\* the chain ends elsewhere or is longer than fuel links
RECURSIVE StepsToRoot(_, _)
StepsToRoot(ref, fuel) ==
    IF ref = RootRef THEN 0
    ELSE IF fuel = 0 \/ ~(\E p \in Owners : p.oid = ref) THEN 0 - 1
    ELSE LET up == StepsToRoot(OwnerOf(ref).parent, fuel - 1)
         IN  IF up < 0 THEN 0 - 1 ELSE up + 1

=============================================================================
